---- MODULE Spec2Model ----
(***************************************************************************)
(* State-machine model of SlackMessageAdapter (src/src/adapter.js): the    *)
(* constraint-based callback registry, the matcher and the dispatch /      *)
(* response-race engine.                                                   *)
(*                                                                         *)
(* JavaScript values are records [t |-> <typeof-like tag>, s |-> <chars>]. *)
(* Strings are sequences of one-character strings so that RegExp.test can  *)
(* be computed as an unanchored search.                                    *)
(***************************************************************************)
EXTENDS Integers, Sequences, FiniteSets, TLC

VARIABLES
    callbacks,                   \* this.callbacks: sequence of <<constraints, callback>>
    verificationToken,           \* this.verificationToken
    syncResponseTimeout,         \* this.syncResponseTimeout
    lateResponseFallbackEnabled, \* this.lateResponseFallbackEnabled
    lastError,                   \* what the last public call threw ("none" when it returned)
    lastCall,                    \* the last public call: its name and its arguments
    phase,                       \* "setup" until dispatch is called, then "dispatched"
    payload,                     \* the payload of the dispatch under way
    invoked,                     \* the callbacks dispatch invoked, in order
    respond,                     \* TRUE when dispatch created the respond closure
    threw,                       \* TRUE when the handler raised while dispatch called it
    callbackResult,              \* what the handler returned (a JS value)
    deferred,                    \* settlement state of callbackResult when it is a promise
    result,                      \* the object dispatch returned
    content,                     \* settlement state of contentConsideringTimeout
    timer,                       \* the timer of promiseTimeout: "none", "armed", "fired"
    race,                        \* settlement state of the promise promiseTimeout returned
    late,                        \* state of callbackResult.then(respond).catch(...)
    posts,                       \* this.axios.post calls made so far, in order
    respondCalls,                \* calls of respond made by the handler
    responded,                   \* the messages the handler passed to respond, in order
    respondThrown                \* the TypeErrors respond threw

vars == <<callbacks, verificationToken, syncResponseTimeout, lateResponseFallbackEnabled, lastError,
          lastCall, phase, payload, invoked, respond, threw, callbackResult, deferred, result,
          content, timer, race, late, posts, respondCalls, responded, respondThrown>>

----------------------------------------------------------------------------
(* Bounds of the model *)

MaxCallbacks == 2
MaxRespondCalls == 1

----------------------------------------------------------------------------
(* JavaScript values *)

Val(t, s) == [t |-> t, s |-> s]

Undefined == Val("undefined", <<>>)
Null      == Val("null", <<>>)
True      == Val("boolean", <<"t">>)
False     == Val("boolean", <<"f">>)
Zero      == Val("number", <<"0">>)
Five      == Val("number", <<"5">>)
Str(s)    == Val("string", s)
RegExp(s) == Val("regexp", s)
Obj(s)    == Val("object", s)
Fn(s)     == Val("function", s)
Promise   == Val("promise", <<>>)
\* an Error-like object whose code property is s (<<>>: no code property)
Err(s)    == Val("error", s)

\* ToBoolean
Truthy(v) ==
    ~ \/ v.t \in {"undefined", "null"}
      \/ v = False
      \/ v = Zero
      \/ v = Str(<<>>)

isString(v)   == v.t = "string"
isRegExp(v)   == v.t = "regexp"
isFunction(v) == v.t = "function"

\* typeof v.then === 'function'
isThenable(v) == v.t = "promise"

\* evaluating v.<property> throws a TypeError
PropertyAccessThrows(v) == v.t \in {"undefined", "null"}

\* s occurs in str as a contiguous run (an unanchored literal pattern)
IsSubstring(s, str) ==
    \E i \in 0..(Len(str) - Len(s)) :
        \A j \in 1..Len(s) : str[i + j] = s[j]

\* RegExp.prototype.test applied to a string value
RegExpTest(re, v) == IsSubstring(re.s, v.s)

\* o.k, undefined when o has no property k
Get(o, k) == IF k \in DOMAIN o THEN o[k] ELSE Undefined

----------------------------------------------------------------------------
(* Registration: normalisation and validation of matching constraints *)

\* A registration argument is either a plain object (a function from property
\* names to values) or any other value.
EmptyObj == [k \in {} |-> Undefined]
Bare(v)  == [plain |-> FALSE, val |-> v, obj |-> EmptyObj]
Plain(o) == [plain |-> TRUE, val |-> Undefined, obj |-> o]

formatMatchingConstraintsThrows(mc) ==
    ~mc.plain /\ mc.val.t \in {"undefined", "null"}

formatMatchingConstraints(mc) ==
    IF ~mc.plain THEN [callbackId |-> mc.val] ELSE mc.obj

\* TRUE when validateConstraints returns an error
validateConstraints(c) ==
    /\ Truthy(Get(c, "callbackId"))
    /\ ~(isString(Get(c, "callbackId")) \/ isRegExp(Get(c, "callbackId")))

SELECT == Str(<<"s", "e", "l", "e", "c", "t">>)
BUTTON == Str(<<"b", "u", "t", "t", "o", "n">>)
DIALOG_SUBMISSION == Str(<<"d", "i", "a", "l", "o", "g", "_", "s", "u", "b", "m", "i", "s", "s", "i", "o", "n">>)

\* TRUE when validateActionConstraints returns an error
validateActionConstraints(c) ==
    /\ Truthy(Get(c, "type"))
    /\ ~(Get(c, "type") = SELECT \/ Get(c, "type") = BUTTON \/
          Get(c, "type") = DIALOG_SUBMISSION)

----------------------------------------------------------------------------
(* The matcher *)

\* payload.actions && payload.actions[0]: the first action, Undefined when the
\* payload has no actions (p.actions is the sequence of the actions' types)
\* mutant: the last action is consulted (stands before FirstAction)
FirstAction_Last(p) ==
    IF Len(p.actions) > 0 THEN [type |-> p.actions[Len(p.actions)]] ELSE EmptyObj
FirstAction(p) == IF Len(p.actions) > 0 THEN [type |-> p.actions[1]] ELSE EmptyObj
HasAction(p)   == Len(p.actions) > 0

\* mutant: a constraint without unfurl is read as unfurl: false
Matches_AbsentUnfurlIsFalse(c, p) ==
    /\ ~ /\ Truthy(Get(c, "callbackId"))
          /\ \/ isString(Get(c, "callbackId")) /\ p.callback_id # Get(c, "callbackId")
             \/ isRegExp(Get(c, "callbackId")) /\ ~RegExpTest(Get(c, "callbackId"), p.callback_id)
    /\ ~ /\ HasAction(p)
          /\ Truthy(Get(c, "type"))
          /\ Get(c, "type") # Get(FirstAction(p), "type")
    /\ Truthy(Get(c, "unfurl")) = Truthy(p.is_app_unfurl)

\* the predicate matchCallback hands to Array.prototype.find
Matches(c, p) ==
    /\ ~ /\ Truthy(Get(c, "callbackId"))
          /\ \/ isString(Get(c, "callbackId")) /\ p.callback_id # Get(c, "callbackId")
             \/ isRegExp(Get(c, "callbackId")) /\ ~RegExpTest(Get(c, "callbackId"), p.callback_id)
    /\ ~ /\ HasAction(p)
          /\ Truthy(Get(c, "type"))
          /\ Get(c, "type") # Get(FirstAction(p), "type")
    /\ ~ /\ "unfurl" \in DOMAIN c
          /\ \/ Truthy(c["unfurl"]) /\ ~Truthy(p.is_app_unfurl)
             \/ ~Truthy(c["unfurl"]) /\ Truthy(p.is_app_unfurl)

\* mutant: the first entry is returned without testing it
matchCallback_FirstEntry(cbs, p) == IF Len(cbs) > 0 THEN 1 ELSE 0

\* mutant: the last matching entry wins
matchCallback_LastMatch(cbs, p) ==
    IF \E i \in 1..Len(cbs) : Matches(cbs[i][1], p)
    THEN CHOOSE i \in 1..Len(cbs) :
            /\ Matches(cbs[i][1], p)
            /\ \A j \in (i + 1)..Len(cbs) : ~Matches(cbs[j][1], p)
    ELSE 0

\* index of the entry this.callbacks.find returns, 0 when it returns undefined
matchCallback(cbs, p) ==
    IF \E i \in 1..Len(cbs) : Matches(cbs[i][1], p)
    THEN CHOOSE i \in 1..Len(cbs) :
            /\ Matches(cbs[i][1], p)
            /\ \A j \in 1..(i - 1) : ~Matches(cbs[j][1], p)
    ELSE 0

----------------------------------------------------------------------------
(* Promises *)

\* settlement state of a promise: st is "none" (there is no such promise),
\* "pending", "fulfilled" or "rejected"; "following" is a promise resolved
\* with callbackResult while callbackResult is still pending
PS(st, val)  == [st |-> st, val |-> val]
NoPromise    == PS("none", Undefined)
Pending      == PS("pending", Undefined)
Fulfilled(v) == PS("fulfilled", v)
Rejected(e)  == PS("rejected", e)
Following    == PS("following", Undefined)

\* a promise resolved with the promise whose state is d
ResolvedWith(d) == IF d.st = "pending" THEN Following ELSE d

\* the TypeError the runtime or respond throws
TypeErr == Val("typeerror", <<>>)
\* the rejection of a failed axios.post
DeliveryError == Val("deliveryerror", <<>>)

\* utilErrorCodes.PROMISE_TIMEOUT
PROMISE_TIMEOUT == <<"T", "I", "M", "E", "O", "U", "T">>
\* the error object promiseTimeout creates and rejects with when the timer fires
\* first: its code is PROMISE_TIMEOUT, and it is no object a handler holds
TimeoutError == Val("timeouterror", PROMISE_TIMEOUT)

\* error.code, <<>> when the value has no code property
Code(error) == IF error.t \in {"error", "timeouterror"} THEN error.s ELSE <<>>

\* 'An error occurred. Please report this to the app developer.'
GENERIC_ERROR == Str(<<"A", "n", " ", "e", "r", "r", "o", "r">>)
EMPTY == Str(<<>>)

----------------------------------------------------------------------------
(* dispatch: respond, the default result, the late-response fallback *)

DefaultResult == [status |-> 200, content |-> EMPTY]
NoResult      == [k \in {} |-> Undefined]

\* mutant: the test for a promise is missing
respondThrows_NoPromiseCheck(message) == PropertyAccessThrows(message)

\* respond(message) throws instead of posting
respondThrows(message) ==
    PropertyAccessThrows(message) \/ isThenable(message)

\* this.axios.post(payload.response_url, message); by records who called respond
Post(p, message, by) == [url |-> p.response_url, body |-> message, by |-> by]

\* the posts after a call respond(message)
respondPosts(p, message, by, ps) ==
    IF respondThrows(message) THEN ps ELSE Append(ps, Post(p, message, by))

\* the handler's synchronous calls of respond, in order
RECURSIVE respondAll(_, _, _)
respondAll(p, ms, ps) ==
    IF ms = <<>> THEN ps
    ELSE respondAll(p, Tail(ms), respondPosts(p, Head(ms), "handler", ps))

RECURSIVE thrownBy(_)
thrownBy(ms) ==
    IF ms = <<>> THEN 0
    ELSE (IF respondThrows(Head(ms)) THEN 1 ELSE 0) + thrownBy(Tail(ms))

\* mutant: the dialog_submission exclusion is dropped
Eligible_NoDialogCheck(p, enabled, resp) ==
    ~(~enabled \/ ~resp)

\* the condition of line 281 negated: the timed-out dispatch takes the fallback
Eligible(p, enabled, resp) ==
    ~(~enabled \/ ~resp \/ p.type = DIALOG_SUBMISSION)

\* mutant: respond is never attached to callbackResult
lateChain_NoRespond(d, p, ps) ==
    CASE d.st = "pending"   -> [late |-> PS("waiting", Undefined), posts |-> ps]
      [] d.st = "fulfilled" -> [late |-> Fulfilled(Undefined), posts |-> ps]
      [] d.st = "rejected"  -> [late |-> Rejected(d.val), posts |-> ps]

\* callbackResult.then(respond).catch(rethrow), given the state d of
\* callbackResult: the chain's state and the posts made
lateChain(d, p, ps) ==
    CASE d.st = "pending"   -> [late |-> PS("waiting", Undefined), posts |-> ps]
      [] d.st = "fulfilled" ->
            IF respondThrows(d.val)
            THEN [late |-> Rejected(TypeErr), posts |-> ps]
            ELSE [late |-> PS("posting", Undefined),
                  posts |-> respondPosts(p, d.val, "engine", ps)]
      [] d.st = "rejected"  -> [late |-> Rejected(d.val), posts |-> ps]

\* the callback given to .catch on the race (lines 276-297), called with the
\* rejection of the race while callbackResult is in state d
onRaceRejected(error, d, p, enabled, resp, ps) ==
    LET chain == lateChain(d, p, ps) IN
    CASE PropertyAccessThrows(error) ->
            [content |-> Rejected(TypeErr), late |-> NoPromise, posts |-> ps]
      [] ~PropertyAccessThrows(error) /\ Code(error) = PROMISE_TIMEOUT ->
            IF ~Eligible(p, enabled, resp)
            THEN [content |-> ResolvedWith(d), late |-> NoPromise, posts |-> ps]
            ELSE [content |-> Fulfilled(EMPTY), late |-> chain["late"],
                  posts |-> chain["posts"]]
      [] OTHER ->
            [content |-> Fulfilled(GENERIC_ERROR), late |-> NoPromise, posts |-> ps]

(* Inputs *)

PICK_COLOR == Str(<<"p", "c">>)
OTHER_ID == Str(<<"x", "y">>)
MENU  == Str(<<"m", "e", "n", "u">>)
URL   == Str(<<"u", "r", "l">>)
INTERACTIVE_MESSAGE == Str(<<"i", "m">>)

H1 == Fn(<<"h", "1">>)
H2 == Fn(<<"h", "2">>)

\* the arguments the constructor is called with
Tokens   == {Str(<<"t", "o", "k">>), Undefined}
Timeouts == {0, 1, 3000, 3001}

\* matchingConstraints arguments of action and options
RegInputs ==
    { Bare(Undefined), Bare(PICK_COLOR), Bare(Five), Plain([type |-> MENU]) }

\* callback arguments of action and options
RegCallbacks == {H1, Undefined}

Payloads ==
    [ callback_id   : {PICK_COLOR, OTHER_ID},
      actions       : {<<>>, <<BUTTON>>},
      response_url  : {Undefined, URL},
      is_app_unfurl : {Undefined},
      type          : {INTERACTIVE_MESSAGE, DIALOG_SUBMISSION} ]

NoPayload ==
    [ callback_id |-> Undefined, actions |-> <<>>, response_url |-> Undefined,
      is_app_unfurl |-> Undefined, type |-> Undefined ]

\* what a handler may pass to respond
RespondMessages == {Obj(<<"m">>), Promise, Undefined}

\* what a handler may return
ReturnValues == {Undefined, Zero, EMPTY, Obj(<<"r">>), Str(<<"o", "k">>), Promise}

\* what the returned promise may fulfil with, and reject with
FulfilValues == {Undefined, Null, Obj(<<"v">>)}
RejectValues == {Undefined, Err(<<>>), Err(<<"E">>), Err(PROMISE_TIMEOUT)}

\* sequences over S of length at most n
RECURSIVE SeqsUpTo(_, _)
SeqsUpTo(S, n) ==
    IF n = 0 THEN {<<>>}
    ELSE SeqsUpTo(S, n - 1) \cup
         {Append(q, x) : q \in {r \in SeqsUpTo(S, n - 1) : Len(r) = n - 1}, x \in S}

----------------------------------------------------------------------------
(* The adapter *)

\* a public call: the method and, for action and options, its two arguments
Call(op, mc, cb) == [op |-> op, mc |-> mc, cb |-> cb]

\* the constructor throws (lines 82-88)
constructorThrows(token, timeout) ==
    ~isString(token) \/ (timeout > 3000 \/ timeout < 1)

Init ==
    /\ callbacks = <<>>
    /\ verificationToken \in Tokens
    /\ syncResponseTimeout \in Timeouts
    /\ ~constructorThrows(verificationToken, syncResponseTimeout)
    /\ lateResponseFallbackEnabled \in BOOLEAN
    /\ lastError = "none"
    /\ lastCall = Call("constructor", Bare(Undefined), Undefined)
    /\ phase = "setup"
    /\ payload = NoPayload
    /\ invoked = <<>>
    /\ respond = FALSE
    /\ threw = FALSE
    /\ callbackResult = Undefined
    /\ deferred = NoPromise
    /\ result = NoResult
    /\ content = NoPromise
    /\ timer = "none"
    /\ race = NoPromise
    /\ late = NoPromise
    /\ posts = <<>>
    /\ respondCalls = 0
    /\ responded = <<>>
    /\ respondThrown = 0

dispatchVars == <<phase, payload, invoked, respond, threw, callbackResult, deferred, result,
                  content, timer, race, late, posts, respondCalls, responded, respondThrown>>
configVars == <<verificationToken, syncResponseTimeout, lateResponseFallbackEnabled>>

\* mutant: a pair that is already registered is not stored again
registerCallback_Dedup(constraints, callback) ==
    IF ~isFunction(callback)
    THEN /\ lastError' = "callback must be a function"
         /\ UNCHANGED callbacks
    ELSE /\ lastError' = "none"
         /\ IF \E i \in 1..Len(callbacks) : callbacks[i] = <<constraints, callback>>
            THEN UNCHANGED callbacks
            ELSE callbacks' = Append(callbacks, <<constraints, callback>>)

\* registerCallback(constraints, callback)
registerCallback(constraints, callback) ==
    IF ~isFunction(callback)
    THEN /\ lastError' = "callback must be a function"
         /\ UNCHANGED callbacks
    ELSE /\ callbacks' = Append(callbacks, <<constraints, callback>>)
         /\ lastError' = "none"

\* action(matchingConstraints, callback)
action(matchingConstraints, callback) ==
    /\ phase = "setup"
    /\ lastCall' = Call("action", matchingConstraints, callback)
    /\ Len(callbacks) < MaxCallbacks
    /\ IF formatMatchingConstraintsThrows(matchingConstraints)
       THEN /\ lastError' = "Callback ID cannot be undefined or null"
            /\ UNCHANGED callbacks
       ELSE LET actionConstraints == formatMatchingConstraints(matchingConstraints) IN
            IF validateConstraints(actionConstraints)
            THEN /\ lastError' = "Callback ID must be a string or RegExp"
                 /\ UNCHANGED callbacks
            ELSE IF validateActionConstraints(actionConstraints)
            THEN /\ lastError' = "Type must be 'select', 'button', or 'dialog_submission'"
                 /\ UNCHANGED callbacks
            ELSE registerCallback(actionConstraints, callback)
    /\ UNCHANGED <<configVars, dispatchVars>>

\* options(matchingConstraints, callback)
options(matchingConstraints, callback) ==
    /\ phase = "setup"
    /\ lastCall' = Call("options", matchingConstraints, callback)
    /\ Len(callbacks) < MaxCallbacks
    /\ IF formatMatchingConstraintsThrows(matchingConstraints)
       THEN /\ lastError' = "Callback ID cannot be undefined or null"
            /\ UNCHANGED callbacks
       ELSE LET optionsConstraints == formatMatchingConstraints(matchingConstraints) IN
            IF validateConstraints(optionsConstraints)
            THEN /\ lastError' = "Callback ID must be a string or RegExp"
                 /\ UNCHANGED callbacks
            ELSE registerCallback(optionsConstraints, callback)
    /\ UNCHANGED <<configVars, dispatchVars>>

\* promiseTimeout(ms, promise): the race of promise against the timer, given the
\* state d of promise; a value that is no promise wins the race at once
promiseTimeout(value, d) ==
    IF isThenable(value) THEN d ELSE Fulfilled(value)

\* the race promise after one of its two inputs settled as s: first to settle wins
raceSettle(r, s) == IF r.st = "pending" THEN s ELSE r

\* mutant: the callback is attached with .then, so it runs on fulfilment
contentAfterRace_Then(r, d, p, enabled, resp, ps) ==
    IF r.st = "fulfilled"
    THEN onRaceRejected(r.val, d, p, enabled, resp, ps)
    ELSE [content |-> r, late |-> NoPromise, posts |-> ps]

\* contentConsideringTimeout once the race has settled as r (fulfilment passes
\* through .catch; a rejection runs its callback)
contentAfterRace(r, d, p, enabled, resp, ps) ==
    IF r.st = "rejected"
    THEN onRaceRejected(r.val, d, p, enabled, resp, ps)
    ELSE [content |-> r, late |-> NoPromise, posts |-> ps]

\* what a handler does while dispatch calls it: the messages it passes to
\* respond, then a throw or a return
Outcomes == {[kind |-> "throw", value |-> Undefined]} \cup
            {[kind |-> "return", value |-> v] : v \in ReturnValues}

\* mutant: the catch block falls through to the default result
dispatchResult_ThrowFallsThrough(out) ==
    IF out.kind = "return" /\ Truthy(out.value) THEN [status |-> 200, content |-> Promise]
    ELSE DefaultResult

\* the result object dispatch returns for a handler outcome (lines 266-301)
dispatchResult(out) ==
    IF out.kind = "throw" THEN [status |-> 500]
    ELSE IF Truthy(out.value) THEN [status |-> 200, content |-> Promise]
    ELSE DefaultResult

\* mutant: only a deferred value enters the race
entersRace_OnlyDeferred(out) == out.kind = "return" /\ isThenable(out.value)

\* the timer race is entered (line 274)
entersRace(out) == out.kind = "return" /\ Truthy(out.value)

\* dispatch(payload), with a handler that calls respond with each of ms and
\* then ends as out
dispatch(p, ms, out) ==
    /\ phase = "setup"
    /\ phase' = "dispatched"
    /\ payload' = p
    /\ lastError' = "none"
    /\ lastCall' = Call("dispatch", Bare(Undefined), Undefined)
    /\ LET i == matchCallback(callbacks, p) IN
       IF i = 0
       THEN /\ result' = DefaultResult
            /\ UNCHANGED <<invoked, respond, threw, callbackResult, deferred, content, timer,
                           race, late, posts, respondCalls, responded, respondThrown>>
       ELSE /\ respond' = Truthy(p.response_url)
            /\ ms # <<>> => Truthy(p.response_url)
            /\ invoked' = Append(invoked, callbacks[i][2])
            /\ posts' = respondAll(p, ms, posts)
            /\ respondCalls' = Len(ms)
            /\ responded' = ms
            /\ respondThrown' = thrownBy(ms)
            /\ threw' = (out.kind = "throw")
            /\ result' = dispatchResult(out)
            /\ callbackResult' = out.value
            /\ late' = NoPromise
            /\ IF entersRace(out)
               THEN /\ timer' = "armed"
                    /\ deferred' = IF isThenable(out.value) THEN Pending ELSE NoPromise
                    /\ race' = promiseTimeout(out.value, Pending)
                    /\ content' = promiseTimeout(out.value, Pending)
               ELSE UNCHANGED <<timer, deferred, race, content>>
    /\ UNCHANGED <<callbacks, configVars>>

\* the handler calls respond(message) after it returned
HandlerRespond(message) ==
    /\ phase = "dispatched"
    /\ respond
    /\ invoked # <<>>
    /\ respondCalls < MaxRespondCalls
    /\ respondCalls' = respondCalls + 1
    /\ responded' = Append(responded, message)
    /\ posts' = respondPosts(payload, message, "handler", posts)
    /\ respondThrown' = respondThrown + thrownBy(<<message>>)
    /\ UNCHANGED <<callbacks, configVars, lastError, lastCall, phase, payload, invoked, respond,
                   threw, callbackResult, deferred, result, content, timer, race, late>>

\* callbackResult settles as s: the race, contentConsideringTimeout and the
\* fallback chain react
Settle(s) ==
    /\ deferred.st = "pending"
    /\ deferred' = s
    /\ race' = raceSettle(race, s)
    /\ IF race.st = "pending"
       THEN LET r == contentAfterRace(s, s, payload, lateResponseFallbackEnabled,
                                      respond, posts) IN
            /\ content' = r["content"]
            /\ late' = r["late"]
            /\ posts' = r["posts"]
       ELSE /\ content' = IF content.st = "following" THEN s ELSE content
            /\ IF late.st = "waiting"
               THEN /\ late' = lateChain(s, payload, posts)["late"]
                    /\ posts' = lateChain(s, payload, posts)["posts"]
               ELSE UNCHANGED <<late, posts>>
    /\ UNCHANGED <<callbacks, configVars, lastError, lastCall, phase, payload, invoked, respond,
                   threw, callbackResult, result, timer, respondCalls, responded, respondThrown>>

\* the promise the handler returned fulfils with value
HandlerFulfil(value) == Settle(Fulfilled(value))

\* the promise the handler returned rejects with error
HandlerReject(error) == Settle(Rejected(error))

\* the timer of promiseTimeout fires
TimerFire ==
    /\ timer = "armed"
    /\ timer' = "fired"
    /\ race' = raceSettle(race, Rejected(TimeoutError))
    /\ IF race.st = "pending"
       THEN LET r == contentAfterRace(Rejected(TimeoutError), deferred, payload,
                                      lateResponseFallbackEnabled, respond, posts) IN
            /\ content' = r["content"]
            /\ late' = r["late"]
            /\ posts' = r["posts"]
       ELSE UNCHANGED <<content, late, posts>>
    /\ UNCHANGED <<callbacks, configVars, lastError, lastCall, phase, payload, invoked, respond,
                   threw, callbackResult, deferred, result, respondCalls, responded, respondThrown>>

\* the fallback POST completes: axios.post's promise settles, and a failure
\* reaches the .catch callback of line 288, which throws it again
PostSettle(ok) ==
    /\ late.st = "posting"
    /\ late' = IF ok THEN Fulfilled(Undefined) ELSE Rejected(DeliveryError)
    /\ UNCHANGED <<callbacks, configVars, lastError, lastCall, phase, payload, invoked, respond,
                   threw, callbackResult, deferred, result, content, timer, race, posts,
                   respondCalls, responded, respondThrown>>

Next ==
    \/ \E mc \in RegInputs, cb \in RegCallbacks : action(mc, cb)
    \/ \E mc \in RegInputs, cb \in RegCallbacks : options(mc, cb)
    \/ \E p \in Payloads, ms \in SeqsUpTo(RespondMessages, MaxRespondCalls),
          out \in Outcomes : dispatch(p, ms, out)
    \/ \E m \in RespondMessages : HandlerRespond(m)
    \/ \E v \in FulfilValues : HandlerFulfil(v)
    \/ \E e \in RejectValues : HandlerReject(e)
    \/ TimerFire
    \/ \E ok \in BOOLEAN : PostSettle(ok)

Spec == Init /\ [][Next]_vars

\* setTimeout callbacks run: an armed timer fires
FairSpec == Spec /\ WF_vars(TimerFire)

----------------------------------------------------------------------------
(* Registration and matching, over a wider range of constraints and payloads;
   the handler returns undefined and does not call respond *)

\* matchingConstraints arguments of action and options
RegInputsM ==
    { Bare(Undefined), Bare(PICK_COLOR), Bare(EMPTY), Bare(Zero),
      Plain([callbackId |-> Zero]), Plain([type |-> BUTTON]), Plain([type |-> MENU]),
      Plain([type |-> EMPTY]), Plain([unfurl |-> True]), Plain([unfurl |-> False]),
      Plain(EmptyObj) }

\* callback arguments of action and options
RegCallbacksM == {H1, H2, Undefined}

PayloadsM ==
    [ callback_id   : {PICK_COLOR, OTHER_ID},
      actions       : {<<>>, <<BUTTON>>, <<SELECT, BUTTON>>},
      response_url  : {Undefined},
      is_app_unfurl : {Undefined, True, False},
      type          : {INTERACTIVE_MESSAGE, DIALOG_SUBMISSION} ]

InitM ==
    /\ Init
    /\ syncResponseTimeout = 3000
    /\ lateResponseFallbackEnabled

NextM ==
    \/ \E mc \in RegInputsM, cb \in RegCallbacksM : action(mc, cb)
    \/ \E mc \in RegInputsM, cb \in RegCallbacksM : options(mc, cb)
    \/ \E p \in PayloadsM : dispatch(p, <<>>, [kind |-> "return", value |-> Undefined])

SpecMatch == InitM /\ [][NextM]_vars

----------------------------------------------------------------------------
(* Properties of dispatch *)

\* the out-of-band deliveries the engine itself issued (the late fallback)
EnginePosts == SelectSeq(posts, LAMBDA x : x.by = "engine")

\* the handler returned a deferred value
ReturnedDeferred == invoked # <<>> /\ ~threw /\ isThenable(callbackResult)

\* the timer fired before the handler's deferred value settled
TimedOut == ReturnedDeferred /\ race = Rejected(TimeoutError)

\* the deferred value settled before the timer fired
SettledFirst == ReturnedDeferred /\ race.st \in {"fulfilled", "rejected"} /\ ~TimedOut

\* fallback eligibility as the specification words it
FallbackEligible ==
    /\ lateResponseFallbackEnabled
    /\ payload.response_url # Undefined
    /\ payload.type # DIALOG_SUBMISSION

\* the dispatch took the fallback path
FallbackTaken == late.st # "none"

\* C1 (as claimed): on timeout the fallback path is taken iff fallback is
\* enabled, the payload carried a response_url and its type is not
\* dialog_submission; on that path the content is '' with status 200, and once
\* the deferred value has fulfilled with v the engine has issued exactly one
\* POST of v to response_url.
C1_Claim ==
    TimedOut =>
        /\ FallbackTaken <=> FallbackEligible
        /\ FallbackEligible =>
            /\ result["status"] = 200
            /\ content = Fulfilled(EMPTY)
            /\ deferred.st = "fulfilled" =>
                  EnginePosts = <<Post(payload, deferred.val, "engine")>>

\* C2: on timeout in a fallback-ineligible dispatch the engine issues no
\* out-of-band delivery, the content stays pending while the deferred value is
\* pending and equals the deferred value's result once it has fulfilled; it is
\* not replaced by '' at the timeout.
C2_NoFallbackKeepsDeferred ==
    (TimedOut /\ ~FallbackEligible) =>
        /\ EnginePosts = <<>>
        /\ ~FallbackTaken
        /\ result["status"] = 200
        /\ deferred.st = "pending" => content.st = "following"
        /\ deferred.st = "fulfilled" => content = deferred

C2_Witness ==
    /\ TimedOut
    /\ payload.type = DIALOG_SUBMISSION
    /\ payload.response_url = URL
    /\ lateResponseFallbackEnabled
    /\ deferred = Fulfilled(Obj(<<"v">>))
    /\ content = Fulfilled(Obj(<<"v">>))

\* C3: when the deferred value fulfils with v before the timer fires, the
\* result has status 200, its content is v, and the engine issues no
\* out-of-band delivery, also after the timer has fired.
C3_ResolvedBeforeDeadline ==
    (SettledFirst /\ deferred.st = "fulfilled") =>
        /\ result["status"] = 200
        /\ content = Fulfilled(deferred.val)
        /\ EnginePosts = <<>>
        /\ ~FallbackTaken

C3_Witness ==
    /\ SettledFirst
    /\ deferred = Fulfilled(Obj(<<"v">>))
    /\ timer = "fired"
    /\ FallbackEligible

\* the handler returned a concrete (non-deferred) value
ReturnedConcrete == invoked # <<>> /\ ~threw /\ ~isThenable(callbackResult)

\* C4 (as claimed): a concrete value the handler returns is ignored, whatever
\* it is: dispatch returns the default result and the timer race is not entered.
C4_Claim ==
    ReturnedConcrete =>
        /\ result = DefaultResult
        /\ timer = "none"
        /\ race = NoPromise

\* C4 (amended): a falsy concrete value is ignored (default result, no timer,
\* no race); a truthy concrete value is not ignored: it enters the timer race,
\* so the result has status 200 and the race's deferred content instead of '',
\* and a timer is started. Either way the engine issues no out-of-band delivery.
C4_ConcreteValue ==
    ReturnedConcrete =>
        /\ ~Truthy(callbackResult) =>
            /\ result = DefaultResult
            /\ timer = "none"
            /\ race = NoPromise
            /\ content = NoPromise
        /\ Truthy(callbackResult) =>
            /\ result = [status |-> 200, content |-> Promise]
            /\ timer # "none"
            /\ race # NoPromise
            /\ content # NoPromise
        /\ EnginePosts = <<>>
        /\ ~FallbackTaken

C4_Witness ==
    /\ ReturnedConcrete
    /\ callbackResult = Obj(<<"r">>)
    /\ timer = "fired"
    /\ FallbackEligible

\* C5: when the handler raises synchronously dispatch returns {status: 500}
\* with no content, whatever the timeout and the fallback setting; no timer is
\* started and the engine makes no out-of-band delivery.
C5_SyncThrow ==
    threw =>
        /\ result = [status |-> 500]
        /\ "content" \notin DOMAIN result
        /\ timer = "none"
        /\ race = NoPromise
        /\ content = NoPromise
        /\ EnginePosts = <<>>
        /\ ~FallbackTaken

C5_Witness ==
    /\ threw
    /\ FallbackEligible
    /\ syncResponseTimeout = 1
    /\ respondCalls = MaxRespondCalls

\* C6 (as claimed): when the deferred value rejects before the timer fires, the
\* content settles as the fixed generic error string with status 200, whatever
\* the rejection value.
C6_Claim ==
    (SettledFirst /\ deferred.st = "rejected") =>
        /\ result["status"] = 200
        /\ content = Fulfilled(GENERIC_ERROR)

\* C7 (as claimed): on the fallback path a late rejection delivers nothing and
\* neither it nor a failed fallback POST leaves a rejected promise behind; the
\* returned result stays {status: 200, content: ''}.
C7_Claim ==
    (TimedOut /\ FallbackTaken) =>
        /\ late.st # "rejected"
        /\ deferred.st = "rejected" => EnginePosts = <<>>
        /\ content = Fulfilled(EMPTY)

\* C8 (as claimed): after the timer has fired first, the content never settles
\* as a rejection, in the fallback-ineligible mode too.
C8_Claim ==
    TimedOut => content.st # "rejected"

\* C9 (as claimed): at most one out-of-band delivery is made to response_url
\* in one dispatch, the handler's calls of respond and the engine's fallback
\* taken together.
C9_Claim == Len(posts) <= 1

\* no registered entry matches the payload
NoEntryMatches == \A i \in 1..Len(callbacks) : ~Matches(callbacks[i][1], payload)

HandlerPosts == SelectSeq(posts, LAMBDA x : x.by = "handler")

\* a message that is neither deferred nor undefined/null
ConcreteMessage(m) == m.t \notin {"promise", "undefined", "null"}

\* C14: a call of respond with a deferred (promise-like) value throws and
\* issues no POST; only concrete values cause a delivery: the handler's POSTs
\* are exactly its concrete messages, in order, and every other call threw.
C14_RespondRejectsPromise ==
    /\ \A i \in 1..Len(posts) : ~isThenable(posts[i].body)
    /\ Len(HandlerPosts) = Len(SelectSeq(responded, ConcreteMessage))
    /\ \A i \in 1..Len(HandlerPosts) :
          HandlerPosts[i] = Post(payload, SelectSeq(responded, ConcreteMessage)[i], "handler")
    /\ respondThrown = Len(responded) - Len(SelectSeq(responded, ConcreteMessage))
    /\ Len(responded) = respondCalls

C14_Witness ==
    /\ respond
    /\ \E i \in 1..Len(responded) : isThenable(responded[i])
    /\ respondThrown >= 1
    /\ HandlerPosts = <<>>

\* C19: when the handler returns a deferred value that fulfils with a non-null
\* object v and does not call respond itself, v is sent through exactly one
\* channel in every interleaving: as the inline content (settled before the
\* timer, or ineligible mode) or as one out-of-band POST (eligible mode, after
\* the timer), never both and never neither.
C19_ExactlyOneChannel ==
    (ReturnedDeferred /\ deferred.st = "fulfilled" /\ deferred.val.t = "object"
        /\ respondCalls = 0) =>
        LET inline == content = Fulfilled(deferred.val)
            oob    == posts = <<Post(payload, deferred.val, "engine")>>
        IN  /\ inline \/ oob
            /\ ~(inline /\ oob)
            /\ ~oob => posts = <<>>
            /\ inline <=> (SettledFirst \/ ~FallbackEligible)

C19_Witness ==
    /\ TimedOut
    /\ FallbackEligible
    /\ respondCalls = 0
    /\ deferred = Fulfilled(Obj(<<"v">>))
    /\ posts = <<Post(payload, Obj(<<"v">>), "engine")>>
    /\ content = Fulfilled(EMPTY)

\* C20 (as claimed): with a fair timer, in a fallback-eligible dispatch whose
\* handler returned a deferred value the content eventually settles to a
\* concrete value, whatever the deferred value does; in a fallback-ineligible
\* dispatch the content is not settled while the deferred value is pending.
C20_Claim ==
    /\ (ReturnedDeferred /\ FallbackEligible) ~> (content.st = "fulfilled")
    /\ []((ReturnedDeferred /\ ~FallbackEligible /\ deferred.st = "pending")
            => content.st \in {"pending", "following"})

----------------------------------------------------------------------------
(* Properties of registration and matching *)

\* the entries of the registry whose constraints accept the payload
MatchingEntries == {i \in 1..Len(callbacks) : Matches(callbacks[i][1], payload)}

ArgCallbackId(mc) == IF mc.plain THEN Get(mc.obj, "callbackId") ELSE mc.val
\* the type a registration argument carries
ArgType(mc) == IF mc.plain THEN Get(mc.obj, "type") ELSE Undefined

\* the argument is absent
AbsentConstraint(mc) == ~mc.plain /\ mc.val.t \in {"undefined", "null"}
\* the argument has a callbackId that is neither a string nor a pattern
InvalidCallbackId(mc) ==
    /\ ArgCallbackId(mc).t \notin {"undefined", "null"}
    /\ ~isString(ArgCallbackId(mc))
    /\ ~isRegExp(ArgCallbackId(mc))
\* the argument has a (non-empty) type outside the three values action accepts
TypeOutside(mc) ==
    /\ Truthy(ArgType(mc))
    /\ ArgType(mc) \notin {SELECT, BUTTON, DIALOG_SUBMISSION}

Registering == lastCall.op \in {"action", "options"}

\* C12 (as claimed): action with a type outside the three values, action or
\* options with an invalid or absent constraint, and either call with a
\* non-callable handler raise an error (and store nothing); options accepts
\* any type value.
C12_Claim ==
    Registering =>
        /\ (lastCall.op = "action" /\ TypeOutside(lastCall.mc)) => lastError # "none"
        /\ AbsentConstraint(lastCall.mc) => lastError # "none"
        /\ InvalidCallbackId(lastCall.mc) => lastError # "none"
        /\ ~isFunction(lastCall.cb) => lastError # "none"
        /\ (/\ lastCall.op = "options"
            /\ ~AbsentConstraint(lastCall.mc)
            /\ ~InvalidCallbackId(lastCall.mc)
            /\ isFunction(lastCall.cb)) => lastError = "none"

\* C13 (as claimed): a registration whose callbackId is present and is neither
\* a string nor a pattern fails, for falsy values (0, false) too, given bare
\* or as the callbackId field of an object.
C13_Claim ==
    (Registering /\ InvalidCallbackId(lastCall.mc)) =>
        lastError = "Callback ID must be a string or RegExp"

\* C15: the registry only grows, one entry at its end per successful action or
\* options call (the pair just registered, equal to an earlier one or not);
\* a failed call, dispatch and everything that follows it leave it as it is.
C15_AppendOnly ==
    [][ IF phase' = "setup" /\ lastError' = "none"
        THEN callbacks' = Append(callbacks,
                 <<formatMatchingConstraints(lastCall'.mc), lastCall'.cb>>)
        ELSE callbacks' = callbacks ]_vars

C15_Witness ==
    /\ phase = "dispatched"
    /\ Len(callbacks) >= 2
    /\ callbacks[1] = callbacks[2]
    /\ invoked = <<callbacks[1][2]>>

\* the constraint has a string callbackId and nothing else
StringIdOnly(c) == DOMAIN c = {"callbackId"} /\ isString(c["callbackId"])

\* C16 (as claimed): an entry with a string callbackId, the empty string
\* included, passes only for a payload whose callback_id equals it.
C16_Claim ==
    (phase = "dispatched" /\ \A i \in 1..Len(callbacks) : StringIdOnly(callbacks[i][1])) =>
        (invoked # <<>> <=>
            \E i \in 1..Len(callbacks) : callbacks[i][1]["callbackId"] = payload.callback_id)

\* the constraint specifies a type and nothing else
TypeOnly(c) == DOMAIN c = {"type"} /\ Truthy(c["type"])
\* the type filter as specified: vacuous without actions, else the first action
TypePasses(c, p) == Len(p.actions) = 0 \/ p.actions[1] = c["type"]

UnfurlOnly(c) ==
    /\ DOMAIN c \subseteq {"unfurl"}
    /\ "unfurl" \in DOMAIN c => c["unfurl"] \in {True, False}
\* the unfurl filter as specified
UnfurlPasses(c, p) ==
    \/ "unfurl" \notin DOMAIN c
    \/ c["unfurl"] = True /\ Truthy(p.is_app_unfurl)
    \/ c["unfurl"] = False /\ ~Truthy(p.is_app_unfurl)

\* C18: for entries that constrain unfurl only, an entry without unfurl passes
\* for every payload, one with unfurl true passes exactly when
\* payload.is_app_unfurl is truthy, one with unfurl false exactly when it is
\* falsy or absent. The handler invoked is that of the first passing entry.
C18_UnfurlFilter ==
    (phase = "dispatched" /\ \A i \in 1..Len(callbacks) : UnfurlOnly(callbacks[i][1])) =>
        LET passing == {i \in 1..Len(callbacks) : UnfurlPasses(callbacks[i][1], payload)}
        IN  /\ passing = {} => invoked = <<>>
            /\ passing # {} =>
                  \E i \in passing : /\ \A j \in passing : i <= j
                                     /\ invoked = <<callbacks[i][2]>>

C18_Witness ==
    /\ phase = "dispatched"
    /\ Len(callbacks) >= 2
    /\ \A i \in 1..Len(callbacks) : UnfurlOnly(callbacks[i][1])
    /\ callbacks[1] = <<[unfurl |-> False], H1>>
    /\ callbacks[2] = <<EmptyObj, H2>>
    /\ payload.is_app_unfurl = True
    /\ invoked = <<H2>>

====
